---- MODULE Spec2Model ----
(***************************************************************************)
(* State-machine model of testplan/common/entity/base.py: the status       *)
(* machine (EntityStatus / RunnableStatus / ResourceStatus), Resource,     *)
(* Environment, Entity.abort and the Runnable step loop.                   *)
(*                                                                         *)
(* Python's None status tag is the string "NONE".  A status object is its  *)
(* transition table (a function whose DOMAIN is the dict's keys) and its   *)
(* current tag.  A call that may raise returns a record                    *)
(* [tag |-> <tag after the call>, raised |-> <an exception escaped>].      *)
(***************************************************************************)
EXTENDS Integers, Sequences, FiniteSets, TLC

\* ---------------------------------------------------------------- bounds
\* Resources that can be added to the Environment exercised on its own.
MaxRes == 3
\* Environment.start()/stop() calls made on the Environment exercised on its own.
MaxOps == 2
\* Resources owned by the Runnable.
RunMaxRes == 2
\* Steps that main_batch_steps() adds, when nothing but run() is called on the
\* Runnable.
MaxUserSteps == 2
\* Steps that main_batch_steps() adds, while pause(), resume() and abort() may
\* be called.
MaxCtlUserSteps == 1
\* Environment.start()/stop() calls made in alternation on an Environment
\* whose resources' hooks do not raise.
MaxCycleOps == 4
\* Calls of Entity.wait() made on an entity exercised on its own.
MaxWaits == 2
\* With statements made on a Resource exercised on its own.
MaxScopes == 2
\* Resources of the Environment whose resources are also called directly.
MaxLifeRes == 2
\* Calls made on that Environment and on its resources.
MaxLifeOps == 3
\* Calls of Runnable.run() while pause(), resume() and abort() may be called.
MaxRuns == 1
\* Calls of Runnable.run() when nothing else is called on the Runnable.
MaxSeqRuns == 2
\* Calls of pause(), resume() and abort() on the Runnable.
MaxCtl == 2

\* ------------------------------------------------------------ status tags
NONE == "NONE"
PAUSING == "PAUSING"
PAUSED == "PAUSED"
RESUMING == "RESUMING"
STARTING == "STARTING"
STARTED == "STARTED"
STOPPING == "STOPPING"
STOPPED == "STOPPED"
EXECUTING == "EXECUTING"
RUNNING == "RUNNING"
FINISHED == "FINISHED"

EntityTags == {NONE, PAUSING, PAUSED, RESUMING}
RunnableTags == EntityTags \cup {EXECUTING, RUNNING, FINISHED}
ResourceTags == EntityTags \cup {STARTING, STARTED, STOPPING, STOPPED}
AllTags == RunnableTags \cup ResourceTags

StatusTypes == {"EntityStatus", "RunnableStatus", "ResourceStatus"}

\* dict.update: the keys of o override those of d.
DictUpdate(d, o) ==
    [k \in (DOMAIN d) \cup (DOMAIN o) |-> IF k \in DOMAIN o THEN o[k] ELSE d[k]]

EntityStatus_transitions ==
    (PAUSING :> {PAUSED}) @@ (PAUSED :> {RESUMING})

RunnableStatus_transitions ==
    DictUpdate(EntityStatus_transitions,
               (NONE :> {RUNNING})
            @@ (RUNNING :> {FINISHED, EXECUTING, PAUSING})
            @@ (EXECUTING :> {RUNNING})
            @@ (PAUSING :> {PAUSED})
            @@ (PAUSED :> {RESUMING})
            @@ (RESUMING :> {RUNNING})
            @@ (FINISHED :> {RUNNING}))

\* Mutant of ResourceStatus_transitions: a stopped resource cannot be started.
ResourceStatus_transitions_no_restart ==
    DictUpdate(EntityStatus_transitions,
               (NONE :> {STARTING})
            @@ (STARTING :> {STARTED, STOPPING})
            @@ (STARTED :> {PAUSING, STOPPING})
            @@ (PAUSING :> {PAUSED})
            @@ (PAUSED :> {RESUMING, STOPPING})
            @@ (RESUMING :> {STARTED})
            @@ (STOPPING :> {STOPPED})
            @@ (STOPPED :> {}))

ResourceStatus_transitions ==
    DictUpdate(EntityStatus_transitions,
               (NONE :> {STARTING})
            @@ (STARTING :> {STARTED, STOPPING})
            @@ (STARTED :> {PAUSING, STOPPING})
            @@ (PAUSING :> {PAUSED})
            @@ (PAUSED :> {RESUMING, STOPPING})
            @@ (RESUMING :> {STARTED})
            @@ (STOPPING :> {STOPPED})
            @@ (STOPPED :> {STARTING}))

transitions(type) ==
    CASE type = "EntityStatus" -> EntityStatus_transitions
      [] type = "RunnableStatus" -> RunnableStatus_transitions
      [] type = "ResourceStatus" -> ResourceStatus_transitions

TagsOf(type) ==
    CASE type = "EntityStatus" -> EntityTags
      [] type = "RunnableStatus" -> RunnableTags
      [] type = "ResourceStatus" -> ResourceTags

\* Mutant of change: the lookup self._transitions[current] is made before the
\* current == new test, so a self-transition from a tag without an entry raises.
change_lookup_first(table, current, new) ==
    IF current \notin DOMAIN table
    THEN [tag |-> current, raised |-> TRUE]
    ELSE IF current = new \/ new \in table[current]
         THEN [tag |-> new, raised |-> FALSE]
         ELSE [tag |-> current, raised |-> TRUE]

\* EntityStatus.change.  `current == new or new in self._transitions[current]`
\* short-circuits; a missing key raises KeyError, re-raised as
\* StatusTransitionException with the tag untouched.
change(table, current, new) ==
    IF current = new
    THEN [tag |-> new, raised |-> FALSE]
    ELSE IF current \notin DOMAIN table
         THEN [tag |-> current, raised |-> TRUE]
         ELSE IF new \in table[current]
              THEN [tag |-> new, raised |-> FALSE]
              ELSE [tag |-> current, raised |-> TRUE]

\* ------------------------------------------------------------- resources
Res == 1..MaxRes

ResChange(t, new) == change(ResourceStatus_transitions, t, new)

\* Resource.start: status.change(STARTING), then the starting() hook.  The
\* hook is abstract in base.py: it returns (hookOk) or raises, and leaves the
\* tag to the STARTED wait handler.
Resource_start(t, hookOk) ==
    LET c == ResChange(t, STARTING)
    IN IF c.raised THEN c ELSE [tag |-> c.tag, raised |-> ~hookOk]

\* Mutant of Resource_stop: stopping() is called whether or not the resource
\* is active.
Resource_stop_always_hooks(t, active, hookOk) ==
    LET c == ResChange(t, STOPPING)
    IN [tag |-> c.tag, raised |-> c.raised \/ ~hookOk, hook |-> ~c.raised]

\* Resource.stop: status.change(STOPPING), then stopping() only if active.
\* `hook`: whether stopping() was called.
Resource_stop(t, active, hookOk) ==
    LET c == ResChange(t, STOPPING)
    IN [tag |-> c.tag,
        raised |-> c.raised \/ (active /\ ~hookOk),
        hook |-> ~c.raised /\ active]

\* Mutant of Resource_wait: the handler sets the tag without asking the
\* transition table.
Resource_wait_forced(t, target) == [tag |-> target, raised |-> FALSE]

\* Resource._wait_started / Resource._wait_stopped, the handlers Entity.wait
\* finds registered for STARTED and STOPPED: they force the tag.
Resource_wait(t, target) == ResChange(t, target)

\* Entity.active
Active(sa, ab) == sa = FALSE /\ ab = FALSE

\* The pairs of different tags that follow one another in `path`, the tags a
\* status object had before and after each status.change() of one call.
Hops(path) ==
    {<<path[i], path[i + 1]>> : i \in {j \in 1..(Len(path) - 1) : path[j] # path[j + 1]}}

\* The observation `o` of the resources' tags after a call that took a tag
\* along `path`.
Observe(o, path) == IF o.on THEN [o EXCEPT !.seen = @ \cup Hops(path)] ELSE o

\* ------------------------------------------------------------- Runnable
RunChange(t, new) == change(RunnableStatus_transitions, t, new)

\* The __name__ of the steps run() enqueues, and of the user's steps.
UserNames == {"u1", "u2"}
StepNames == {"setup", "start", "stop", "teardown"} \cup UserNames

\* What a step does: it returns True, False or another value ("None"), or
\* raises an Exception ("Err").
StepOutcomes == {"True", "False", "None", "Err"}

NoStep == [id |-> 0, name |-> "none"]

\* The lists of steps a main_batch_steps() may add, at most n long, up to the
\* naming of the steps: the first is named u1, a later one u1 again or u2.
UserPrograms(n) ==
    {s \in UNION {[1..k -> UserNames] : k \in 0..n} : Len(s) > 0 => s[1] = "u1"}

\* Runnable._add_step applied to the names in `names`, the first id being
\* `next`: deque.append at the right end.
AddSteps(q, names, next) ==
    q \o [i \in 1..Len(names) |-> [id |-> next + i - 1, name |-> names[i]]]

\* Mutant of PopLeft: deque.pop(), the step at the right end.
PopLeft_right(q) == [step |-> q[Len(q)], rest |-> SubSeq(q, 1, Len(q) - 1)]

\* deque.popleft() on a queue that is not empty.
PopLeft(q) == [step |-> Head(q), rest |-> Tail(q)]

\* Mutant of ExecuteStep: the exception of a step is not caught.
ExecuteStep_propagates(results, name, outcome) ==
    IF outcome = "Err"
    THEN [results |-> results, raised |-> TRUE]
    ELSE [results |-> [results EXCEPT ![name] = outcome], raised |-> FALSE]

\* Runnable._execute_step: the step's return value, or the Exception it
\* raised, is stored under step.__name__; nothing escapes.
ExecuteStep(results, name, outcome) ==
    [results |-> [results EXCEPT ![name] = outcome], raised |-> FALSE]

\* What result.step_results may hold under a name: the outcomes above, and
\* the integers 0 and 5 for "another value".
ResultValues == StepOutcomes \cup {"0", "5"}

\* Mutant of run_result: a step result counts as success when it is truthy.
run_result_truthy(results) ==
    \A n \in DOMAIN results : results[n] \in {"absent", "True", "5"}

\* Runnable.run_result: `not isinstance(val, Exception) and val is not False`
\* for every value of step_results ("absent": the name is not a key).
run_result(results) ==
    \A n \in DOMAIN results : results[n] # "Err" /\ results[n] # "False"

\* Mutant of RunField: the status tag is not looked at.
RunField_ignores_status(t, results) ==
    IF run_result(results) THEN "True" ELSE "False"

\* Runnable.run, the else clause: result.run =
\* `self.status.tag == RunnableStatus.FINISHED and self.run_result() is True`
RunField(t, results) ==
    IF t = FINISHED /\ run_result(results) THEN "True" ELSE "False"

\* Mutant of AbortRequest: the flag is toggled.
AbortRequest_toggle(flag) == ~flag

\* Entity.abort: self._should_abort = True
AbortRequest(flag) == TRUE

\* Mutant of MarkAborted: the flag is left as it is.
MarkAborted_never(flag) == flag

\* Entity.abort: self._aborted = True
MarkAborted(flag) == TRUE

Reverse(s) == [i \in 1..Len(s) |-> s[Len(s) + 1 - i]]

Range(s) == {s[i] : i \in 1..Len(s)}

VARIABLES
    \* one status object exercised on its own
    smType, smTag, smPrev, smNew, smRaised,
    \* what run_result() returned when called on its own ("unset" before)
    runResultOut,
    \* Environment._resources: the OrderedDict as a sequence of
    \* [uid |-> , item |-> ] in insertion order
    resources,
    \* resource.cfg.async_start, resource.status.tag
    asyncStart, tag,
    \* resource._context: "None", or "env" for the Environment
    context,
    \* observation of the resources' status objects: whether it is kept
    \* (`on`), and if so every pair <<from, to>> of different tags that one
    \* status.change() call has gone between (`seen`)
    tagEdges,
    \* the keys of Environment.start_exceptions / stop_exceptions
    start_exceptions, stop_exceptions,
    \* Entity._should_abort, Entity._aborted of each resource
    should_abort, aborted,
    \* the Environment call in progress: its position, its loop index, the
    \* list it iterates, how it ended ("none" | "ok" | "raised"), which call
    \* it is ("none" | "start" | "stop")
    envPc, envIdx, envList, envResult, envReversed, envOp,
    \* observation of the call in progress: resources on which start(),
    \* the second-pass wait() and stop() were called, in call order; the
    \* tags when the call was made; the index the start pass halted at; the
    \* resources whose start() or stop() raised in this call
    startLog, waitLog, stopLog, tagAtEntry, haltedAt, failLog,
    \* calls made so far on the Environment exercised on its own
    nOps,
    \* the Runnable: status.tag, _should_abort, _aborted, the deque _steps,
    \* result.step_results, result.run, cfg.interactive, and the steps its
    \* main_batch_steps() adds
    rTag, rShouldAbort, rAborted, steps, step_results, resultRun,
    interactive, userSteps,
    \* the thread inside Runnable.run(): its position and the step in flight
    wPc, cur,
    \* observation of the run: every step enqueued, in order (a step's id is
    \* its index here); the ids of the steps begun, in order; the step that
    \* finished last and what it did; the steps finished in the run() call in
    \* progress and what each did, in order; the queue when _run() was
    \* entered; run() calls made
    enqLog, execLog, lastStep, lastOutcome, doneLog, queueAtRun, nRuns,
    \* the thread calling pause(), resume() and abort() on the Runnable: its
    \* position and loop index
    cPc, cIdx,
    \* observation of that thread: the events of the abort() call in progress,
    \* abort() calls made (counted up to 2), pause(), resume() and abort()
    \* calls made
    abortLog, nAborts, nCtl,
    \* observation of the loop of _run once _should_abort is set: the steps
    \* popped, and whether the empty queue was found, with the flag set
    late,
    \* the RunnableManager: the thread inside RunnableManager.run() ("idle" |
    \* "joining" | "returned" | "raised"), its signal handler ("none" |
    \* "handling" | "done"), its _should_abort and _aborted
    mPc, mSig, mShouldAbort, mAborted,
    \* the last call of Environment.add / Environment.remove made on its own:
    \* its arguments, the mapping before it, whether it raised, what it
    \* returned, and the context the resource of an add had before it
    addObs,
    \* the thread calling Entity.wait() on an entity exercised on its own: its
    \* position ("idle" | "waiting"), the target of the call in progress, and
    \* for every call that has ended how it ended ("reached" | "timeout"),
    \* whether it raised and what it returned
    wtPc, wtTarget, wtCalls,
    \* a Resource used in a with statement on its own: the position of the
    \* thread ("out" | "body"), the resource's tag and abort flags, the calls
    \* made on it by the with statement in progress, and for every with
    \* statement that has ended those calls, whether an exception left it and
    \* the tag it left, and for the stop() of __exit__ the tag before it,
    \* whether the resource was active, and the tag after it
    scPc, scTag, scShould, scAborted, scCalls, scLog

smVars == <<smType, smTag, smPrev, smNew, smRaised, runResultOut>>
resVars == <<resources, asyncStart, tag, tagEdges, context,
            start_exceptions, stop_exceptions>>
abortVars == <<should_abort, aborted>>
envCallVars == <<envPc, envIdx, envList, envResult, envReversed, envOp>>
envLogVars == <<startLog, waitLog, stopLog, tagAtEntry, haltedAt, failLog>>
envVars == <<resVars, envCallVars, envLogVars, nOps>>
runVars == <<rTag, rShouldAbort, rAborted, steps, step_results, resultRun,
             interactive, userSteps, wPc, cur,
             enqLog, execLog, lastStep, lastOutcome, doneLog, queueAtRun, nRuns>>
ctlVars == <<cPc, cIdx, abortLog, nAborts, nCtl, late>>
mgrVars == <<mPc, mSig, mShouldAbort, mAborted>>
scVars == <<scPc, scTag, scShould, scAborted, scCalls, scLog>>
soloVars == <<addObs, wtPc, wtTarget, wtCalls, scVars>>
vars == <<smVars, envVars, abortVars, runVars, ctlVars, mgrVars, soloVars>>

\* The iteration order of the Environment: the resources, in insertion order.
EnvValues == [i \in 1..Len(resources) |-> resources[i].item]

EnvUids == {resources[i].uid : i \in 1..Len(resources)}

\* --------------------------------------------------------- initial states
\* EntityStatus.__init__ / Entity.__init__ / Environment.__init__
InitSm ==
    /\ smType = "EntityStatus"
    /\ smTag = NONE
    /\ smPrev = NONE
    /\ smNew = NONE
    /\ smRaised = FALSE
    /\ runResultOut = "unset"

InitEnvRest ==
    /\ resources = <<>>
    /\ asyncStart = [r \in Res |-> TRUE]
    /\ tag = [r \in Res |-> NONE]
    /\ context = [r \in Res |-> "None"]
    /\ start_exceptions = {}
    /\ stop_exceptions = {}
    /\ envPc = "idle"
    /\ envIdx = 0
    /\ envList = <<>>
    /\ envResult = "none"
    /\ envReversed = FALSE
    /\ envOp = "none"
    /\ startLog = <<>>
    /\ waitLog = <<>>
    /\ stopLog = <<>>
    /\ tagAtEntry = [r \in Res |-> NONE]
    /\ haltedAt = 0
    /\ failLog = {}
    /\ nOps = 0

\* The same, the changes of the resources' tags not observed.
InitEnv == InitEnvRest /\ tagEdges = [on |-> FALSE, seen |-> {}]

InitAbort ==
    /\ should_abort = [r \in Res |-> FALSE]
    /\ aborted = [r \in Res |-> FALSE]

\* Entity.__init__ of the RunnableManager; run() not called.  No call has
\* been made on an object exercised on its own.
InitMgr ==
    /\ mPc = "idle"
    /\ mSig = "none"
    /\ mShouldAbort = FALSE
    /\ mAborted = FALSE
    /\ addObs = [op |-> "none", uid |-> 0, item |-> 0, before |-> <<>>,
                 raised |-> FALSE, ret |-> 0, ctxBefore |-> "None"]
    /\ wtPc = "idle"
    /\ wtTarget = NONE
    /\ wtCalls = <<>>
    /\ scPc = "out"
    /\ scTag = NONE
    /\ scShould = FALSE
    /\ scAborted = FALSE
    /\ scCalls = <<>>
    /\ scLog = <<>>

\* Runnable.__init__, with the configuration and the user's steps given;
\* step_results apart.
InitRunRest ==
    /\ rTag = NONE
    /\ rShouldAbort = FALSE
    /\ rAborted = FALSE
    /\ steps = <<>>
    /\ resultRun = "unset"
    /\ wPc = "idle"
    /\ cur = NoStep
    /\ enqLog = <<>>
    /\ execLog = <<>>
    /\ lastStep = NoStep
    /\ lastOutcome = "none"
    /\ doneLog = <<>>
    /\ queueAtRun = <<>>
    /\ nRuns = 0
    /\ cPc = "idle"
    /\ cIdx = 0
    /\ abortLog = <<>>
    /\ nAborts = 0
    /\ nCtl = 0
    /\ late = [begun |-> 0, finished |-> FALSE]

\* Runnable.__init__: RunnableResult() has no step results.
InitRun ==
    /\ InitRunRest
    /\ step_results = [n \in StepNames |-> "absent"]

\* A Runnable that is not in use: default configuration, no user steps.
InitRunIdle ==
    /\ InitRun
    /\ interactive = FALSE
    /\ userSteps = <<>>

\* ------------------------------------------------------ the status machine
\* A status object of any of the three types, at any tag of its enumeration.
InitStatus ==
    /\ smType \in StatusTypes
    /\ smTag \in TagsOf(smType)
    /\ smPrev = smTag
    /\ smNew = smTag
    /\ smRaised = FALSE
    /\ runResultOut = "unset"
    /\ InitEnv
    /\ InitAbort
    /\ InitMgr
    /\ InitRunIdle

\* status.change(new)
SmChange ==
    \E new \in AllTags :
        LET c == change(transitions(smType), smTag, new)
        IN /\ smPrev' = smTag
           /\ smNew' = new
           /\ smTag' = c.tag
           /\ smRaised' = c.raised
           /\ UNCHANGED <<smType, runResultOut>>
           /\ UNCHANGED <<mgrVars, soloVars>>
           /\ UNCHANGED <<envVars, abortVars, runVars, ctlVars>>

NextStatus == SmChange

SpecStatus == InitStatus /\ [][NextStatus]_vars

LegalSuccessors(type, t) ==
    IF t \in DOMAIN transitions(type) THEN transitions(type)[t] ELSE {}

\* C1: for every status type and current tag T, change(X) with X # T and X not
\* a legal successor of T (T without an entry included) raises and leaves the
\* tag at T; change(X) with X = T or X a legal successor sets the tag to X.
C1_ChangeContract ==
    LET legal == smNew = smPrev \/ smNew \in LegalSuccessors(smType, smPrev)
    IN /\ ~legal => (smRaised /\ smTag = smPrev)
       /\ legal => (~smRaised /\ smTag = smNew)

\* A change refused from a tag that has no entry in the table.
C1_Witness ==
    /\ smRaised
    /\ smPrev \notin DOMAIN transitions(smType)
    /\ smNew # smPrev
    /\ smTag = smPrev

\* ------------------------------------------------------------ Environment
\* Environment.add, `if uid is None: uid = item.uid()`: None is 0 here, and a
\* resource's own uid is its number.
AssignedUid(item, uid) == IF uid = 0 THEN item ELSE uid

\* Mutant of Environment_add: no test for a uid already present; the item is
\* stored under it, in the place the uid has in the order.
Environment_add_overwrite(res, item, uid) ==
    IF uid \in {res[i].uid : i \in 1..Len(res)}
    THEN [resources |-> [i \in 1..Len(res) |->
                            IF res[i].uid = uid
                            THEN [uid |-> uid, item |-> item] ELSE res[i]],
          raised |-> FALSE, ret |-> uid]
    ELSE [resources |-> Append(res, [uid |-> uid, item |-> item]),
          raised |-> FALSE, ret |-> uid]

\* Environment.add with the uid assigned: a uid already present raises
\* RuntimeError and the mapping is left as it was; else the item is stored at
\* the end of the OrderedDict and the uid returned (`ret`, 0 when it raised).
Environment_add(res, item, uid) ==
    IF uid \in {res[i].uid : i \in 1..Len(res)}
    THEN [resources |-> res, raised |-> TRUE, ret |-> 0]
    ELSE [resources |-> Append(res, [uid |-> uid, item |-> item]),
          raised |-> FALSE, ret |-> uid]

\* Environment.add, `item.context = self`: the statement comes before the
\* test for a uid already present.
Environment_add_context(ctx, item) == [ctx EXCEPT ![item] = "env"]

\* Environment.remove: `del self._resources[uid]`, a KeyError when the uid is
\* not a key.
Environment_remove(res, uid) ==
    IF uid \in {res[i].uid : i \in 1..Len(res)}
    THEN [resources |-> SelectSeq(res, LAMBDA e : e.uid # uid), raised |-> FALSE]
    ELSE [resources |-> res, raised |-> TRUE]

\* Mutant of SyncWait: the first loop never waits inline.
SyncWait_never(isAsync) == FALSE

\* Environment.start, first loop: `if resource.cfg.async_start is False`.
SyncWait(isAsync) == isAsync = FALSE

\* Mutant of AfterStartFirst: the except clause records the failure and the
\* loop goes on to the next resource (no break).
AfterStartFirst_no_break(failed, idx, n) ==
    IF idx = n
    THEN [pc |-> "start2", idx |-> 1]
    ELSE [pc |-> "start1", idx |-> idx + 1]

\* Environment.start, first loop control: the except clause breaks; the loop
\* ends after the last resource.  Either way the second loop starts over.
AfterStartFirst(failed, idx, n) ==
    IF failed \/ idx = n
    THEN [pc |-> "start2", idx |-> 1]
    ELSE [pc |-> "start1", idx |-> idx + 1]

\* Environment.start, second loop body: the async_start test comes first
\* (continue), then the start_exceptions test (break), else wait(STARTED).
StartSecondStep(isAsync, inExceptions) ==
    IF isAsync = FALSE THEN "continue"
    ELSE IF inExceptions THEN "break"
    ELSE "wait"

\* Mutant of StopList: the reversed flag is ignored.
StopList_never_reversed(values, reversed) == values

\* Environment.stop: resources = list(values); reversed -> resources[::-1]
StopList(values, reversed) == IF reversed THEN Reverse(values) ELSE values

\* Environment.stop, both loops: `if resource.status.tag is None: continue`
NotTriggered(t) == t = NONE

\* A freshly constructed resource, one of `items` (its async_start chosen at
\* construction), is added to the Environment under its own uid.
AddResource(items) ==
    /\ \E item \in items, isAsync \in BOOLEAN :
        /\ item \notin Range(EnvValues)
        /\ LET a == Environment_add(resources, item, item)
           IN /\ ~a.raised
              /\ resources' = a.resources
        /\ context' = Environment_add_context(context, item)
        /\ asyncStart' = [asyncStart EXCEPT ![item] = isAsync]
    /\ UNCHANGED <<tag, tagEdges, start_exceptions, stop_exceptions>>
    /\ UNCHANGED <<envCallVars, envLogVars, nOps, smVars, mgrVars, soloVars, abortVars, runVars, ctlVars>>

\* The Environment is built before it is used.
EnvAdd ==
    /\ envPc = "idle"
    /\ nOps = 0
    /\ AddResource(Res)

\* Entry of Environment.start().
EnvStartBegin ==
    /\ envList' = EnvValues
    /\ envReversed' = FALSE
    /\ envOp' = "start"
    /\ envIdx' = 1
    /\ envPc' = IF Len(resources) = 0 THEN "done" ELSE "start1"
    /\ envResult' = IF Len(resources) = 0 THEN "ok" ELSE "none"
    /\ startLog' = <<>>
    /\ waitLog' = <<>>
    /\ stopLog' = <<>>
    /\ tagAtEntry' = tag
    /\ haltedAt' = 0
    /\ failLog' = {}

\* Entry of Environment.stop(reversed).
EnvStopBegin(reversed) ==
    /\ envList' = StopList(EnvValues, reversed)
    /\ envReversed' = reversed
    /\ envOp' = "stop"
    /\ envIdx' = 1
    /\ envPc' = IF Len(resources) = 0 THEN "done" ELSE "stop1"
    /\ envResult' = IF Len(resources) = 0 THEN "ok" ELSE "none"
    /\ startLog' = <<>>
    /\ waitLog' = <<>>
    /\ stopLog' = <<>>
    /\ tagAtEntry' = tag
    /\ haltedAt' = 0
    /\ failLog' = {}

\* One iteration of the first loop of Environment.start: resource.start(),
\* the wait for STARTED of a synchronous resource, and the except clause.
\* `hooks`: whether the resource's starting() may return (TRUE), raise (FALSE).
EnvStartFirstWith(hooks) ==
    /\ envPc = "start1"
    /\ \E hookOk \in hooks :
        LET r == envList[envIdx]
            s == Resource_start(tag[r], hookOk)
            w == IF ~s.raised /\ SyncWait(asyncStart[r])
                 THEN Resource_wait(s.tag, STARTED)
                 ELSE s
            nxt == AfterStartFirst(w.raised, envIdx, Len(envList))
        IN /\ tag' = [tag EXCEPT ![r] = w.tag]
           /\ tagEdges' = Observe(tagEdges, <<tag[r], s.tag, w.tag>>)
           /\ startLog' = Append(startLog, r)
           /\ start_exceptions' =
                  IF w.raised THEN start_exceptions \cup {r} ELSE start_exceptions
           /\ haltedAt' = IF w.raised /\ haltedAt = 0 THEN envIdx ELSE haltedAt
           /\ failLog' = IF w.raised THEN failLog \cup {r} ELSE failLog
           /\ envPc' = nxt.pc
           /\ envIdx' = nxt.idx
    /\ UNCHANGED <<resources, asyncStart, context, stop_exceptions>>
    /\ UNCHANGED <<envList, envResult, envReversed, envOp>>
    /\ UNCHANGED <<waitLog, stopLog, tagAtEntry, nOps, smVars, mgrVars, soloVars, abortVars, runVars, ctlVars>>

\* The same, for a resource whose starting() returns or raises.
EnvStartFirst == EnvStartFirstWith(BOOLEAN)

\* One iteration of the second loop of Environment.start.  An exception of
\* wait() is not caught: it ends the call.
EnvStartSecond ==
    /\ envPc = "start2"
    /\ LET r == envList[envIdx]
           d == StartSecondStep(asyncStart[r], r \in start_exceptions)
           w == Resource_wait(tag[r], STARTED)
           last == envIdx = Len(envList)
       IN CASE d = "continue" ->
                 /\ UNCHANGED <<tag, tagEdges, waitLog>>
                 /\ envPc' = IF last THEN "done" ELSE "start2"
                 /\ envResult' = IF last THEN "ok" ELSE envResult
                 /\ envIdx' = envIdx + 1
            [] d = "break" ->
                 /\ UNCHANGED <<tag, tagEdges, waitLog>>
                 /\ envPc' = "done"
                 /\ envResult' = "ok"
                 /\ UNCHANGED envIdx
            [] d = "wait" ->
                 /\ tag' = [tag EXCEPT ![r] = w.tag]
                 /\ tagEdges' = Observe(tagEdges, <<tag[r], w.tag>>)
                 /\ waitLog' = Append(waitLog, r)
                 /\ envPc' = IF w.raised \/ last THEN "done" ELSE "start2"
                 /\ envResult' = IF w.raised THEN "raised"
                                 ELSE IF last THEN "ok" ELSE envResult
                 /\ envIdx' = envIdx + 1
    /\ UNCHANGED <<resources, asyncStart, context, start_exceptions, stop_exceptions>>
    /\ UNCHANGED <<envList, envReversed, envOp>>
    /\ UNCHANGED <<startLog, stopLog, tagAtEntry, haltedAt, failLog>>
    /\ UNCHANGED <<nOps, smVars, mgrVars, soloVars, abortVars, runVars, ctlVars>>

\* One iteration of the first loop of Environment.stop: skip a resource at
\* NONE, else resource.stop(); the except clause records and goes on.
\* `hooks`: whether the resource's stopping() may return (TRUE), raise (FALSE).
EnvStopFirstWith(hooks) ==
    /\ envPc = "stop1"
    /\ \E hookOk \in hooks :
        LET r == envList[envIdx]
            s == Resource_stop(tag[r], Active(should_abort[r], aborted[r]), hookOk)
        IN IF NotTriggered(tag[r])
           THEN UNCHANGED <<tag, tagEdges, stopLog, stop_exceptions, failLog>>
           ELSE /\ tag' = [tag EXCEPT ![r] = s.tag]
                /\ tagEdges' = Observe(tagEdges, <<tag[r], s.tag>>)
                /\ stopLog' = Append(stopLog, r)
                /\ failLog' = IF s.raised THEN failLog \cup {r} ELSE failLog
                /\ stop_exceptions' =
                       IF s.raised THEN stop_exceptions \cup {r} ELSE stop_exceptions
    /\ IF envIdx = Len(envList)
       THEN envPc' = "stop2" /\ envIdx' = 1
       ELSE envPc' = "stop1" /\ envIdx' = envIdx + 1
    /\ UNCHANGED <<resources, asyncStart, context, start_exceptions>>
    /\ UNCHANGED <<envList, envResult, envReversed, envOp>>
    /\ UNCHANGED <<startLog, waitLog, tagAtEntry, haltedAt, nOps, smVars, mgrVars, soloVars, abortVars, runVars, ctlVars>>

\* The same, for a resource whose stopping() returns or raises.
EnvStopFirst == EnvStopFirstWith(BOOLEAN)

\* One iteration of the second loop of Environment.stop.
EnvStopSecond ==
    /\ envPc = "stop2"
    /\ LET r == envList[envIdx]
           w == Resource_wait(tag[r], STOPPED)
           last == envIdx = Len(envList)
       IN IF r \in stop_exceptions \/ NotTriggered(tag[r])
          THEN /\ UNCHANGED <<tag, tagEdges, waitLog>>
               /\ envPc' = IF last THEN "done" ELSE "stop2"
               /\ envResult' = IF last THEN "ok" ELSE envResult
          ELSE /\ tag' = [tag EXCEPT ![r] = w.tag]
               /\ tagEdges' = Observe(tagEdges, <<tag[r], w.tag>>)
               /\ waitLog' = Append(waitLog, r)
               /\ envPc' = IF w.raised \/ last THEN "done" ELSE "stop2"
               /\ envResult' = IF w.raised THEN "raised"
                               ELSE IF last THEN "ok" ELSE envResult
    /\ envIdx' = envIdx + 1
    /\ UNCHANGED <<resources, asyncStart, context, start_exceptions, stop_exceptions>>
    /\ UNCHANGED <<envList, envReversed, envOp>>
    /\ UNCHANGED <<startLog, stopLog, tagAtEntry, haltedAt, failLog>>
    /\ UNCHANGED <<nOps, smVars, mgrVars, soloVars, abortVars, runVars, ctlVars>>

\* A caller invokes Environment.start() on the Environment.
CallStart ==
    /\ envPc \in {"idle", "done"}
    /\ nOps < MaxOps
    /\ nOps' = nOps + 1
    /\ EnvStartBegin
    /\ UNCHANGED <<resVars, smVars, mgrVars, soloVars, abortVars, runVars, ctlVars>>

\* A caller invokes Environment.stop(reversed).
CallStop ==
    /\ envPc \in {"idle", "done"}
    /\ nOps < MaxOps
    /\ nOps' = nOps + 1
    /\ \E reversed \in BOOLEAN : EnvStopBegin(reversed)
    /\ UNCHANGED <<resVars, smVars, mgrVars, soloVars, abortVars, runVars, ctlVars>>

InitEnvSpec == InitSm /\ InitEnv /\ InitAbort /\ InitMgr /\ InitRunIdle

NextEnv ==
    \/ EnvAdd
    \/ CallStart
    \/ CallStop
    \/ EnvStartFirst
    \/ EnvStartSecond
    \/ EnvStopFirst
    \/ EnvStopSecond

SpecEnv == InitEnvSpec /\ [][NextEnv]_vars

\* ----------------------------------------------- Environment.start / stop
Started(r) == \E j \in 1..Len(startLog) : startLog[j] = r

\* C2: Environment.start() halts at the first resource whose start raises:
\* from the halt on, that resource and every resource before it have a tag
\* other than NONE, every resource after it keeps the tag it had when start()
\* was called (NONE if it was never started) and had no start() call, and the
\* failing resource is in start_exceptions.
C2_StartHaltsAtFirstFailure ==
    (envOp = "start" /\ haltedAt # 0) =>
        /\ envList[haltedAt] \in start_exceptions
        /\ \A j \in 1..haltedAt : tag[envList[j]] # NONE
        /\ \A j \in (haltedAt + 1)..Len(envList) :
              /\ tag[envList[j]] = tagAtEntry[envList[j]]
              /\ ~Started(envList[j])

\* start() on three fresh resources has finished after the second one failed.
C2_Witness ==
    /\ envOp = "start"
    /\ envPc = "done"
    /\ Len(envList) = 3
    /\ haltedAt = 2
    /\ \A r \in Res : tagAtEntry[r] = NONE
    /\ tag[envList[1]] = STARTED
    /\ tag[envList[2]] = STARTING
    /\ tag[envList[3]] = NONE

\* C3 (as claimed): after a halt the second pass waits only on resources
\* started before the halt, and start() returns normally.
C3_SecondPassStopsAtHalt ==
    (envOp = "start" /\ haltedAt # 0) =>
        /\ envResult # "raised"
        /\ \A i \in 1..Len(waitLog) :
              \E j \in 1..(haltedAt - 1) : envList[j] = waitLog[i]

StopVisited ==
    SubSeq(envList, 1, IF envPc = "stop1" THEN envIdx - 1 ELSE Len(envList))

TriggeredAtEntry(r) == tagAtEntry[r] # NONE

BatchNames == <<"setup", "start">> \o userSteps \o <<"stop">>

\* The Runnable's resources are added when it is built, before its first run;
\* they are numbered in the order they are added.
RunAdd ==
    /\ wPc = "idle"
    /\ cPc = "idle"
    /\ nRuns = 0
    /\ nCtl = 0
    /\ AddResource({Len(resources) + 1} \cap (1..RunMaxRes))

\* Runnable.run() up to the loop: _add_step(setup); `raise` when interactive
\* (caught by run(): result.run = the error); else _run_batch_steps() enqueues
\* and _run() starts with status.change(RUNNING), whose exception run() catches.
Runnable_run(limit) ==
    /\ wPc \in {"idle", "returned"}
    /\ nRuns < limit
    /\ nRuns' = nRuns + 1
    /\ doneLog' = <<>>
    /\ LET names == IF interactive THEN <<"setup">> ELSE BatchNames
           c == RunChange(rTag, RUNNING)
       IN /\ steps' = AddSteps(steps, names, Len(enqLog) + 1)
          /\ enqLog' = enqLog \o names
          /\ queueAtRun' = steps'
          /\ IF interactive \/ c.raised
             THEN /\ resultRun' = "Err"
                  /\ wPc' = "returned"
                  /\ UNCHANGED rTag
             ELSE /\ rTag' = c.tag
                  /\ wPc' = "loop"
                  /\ UNCHANGED resultRun
    /\ UNCHANGED <<rShouldAbort, rAborted, step_results, interactive, userSteps>>
    /\ UNCHANGED <<cur, execLog, lastStep, lastOutcome>>
    /\ UNCHANGED <<smVars, mgrVars, soloVars, envVars, abortVars, ctlVars>>

\* run() called while another thread may call pause(), resume() and abort().
CallRun == Runnable_run(MaxRuns)

\* run() called, and called again after it returned, by the only thread.
CallRunSeq == Runnable_run(MaxSeqRuns)

\* Mutant of LoopHead: the loop does not test self.active.
LoopHead_ignores_abort(isActive, t) ==
    IF t = RUNNING THEN "pop" ELSE "loop"

\* _run: `while self.active`, then `if self.status.tag == RUNNING`; when the
\* tag is another one the iteration only sleeps.  Where the thread goes next.
LoopHead(isActive, t) ==
    IF ~isActive THEN "after"
    ELSE IF t = RUNNING THEN "pop"
    ELSE "loop"

\* _run, the head of one iteration.
LoopCheck ==
    /\ wPc = "loop"
    /\ wPc' = LoopHead(Active(rShouldAbort, rAborted), rTag)
    /\ UNCHANGED <<rTag, rShouldAbort, rAborted, steps, step_results, resultRun,
                   interactive, userSteps, cur,
                   enqLog, execLog, lastStep, lastOutcome, doneLog, queueAtRun, nRuns>>
    /\ UNCHANGED <<smVars, mgrVars, soloVars, envVars, abortVars, ctlVars>>

\* _run: self._steps.popleft().  IndexError on the empty queue:
\* status.change(FINISHED) and break; its exception escapes _run and is caught
\* by run().  Otherwise the step begins (pre_step_call, skip_step is False).
Pop ==
    /\ wPc = "pop"
    /\ IF steps = <<>>
       THEN LET c == RunChange(rTag, FINISHED)
            IN /\ rTag' = c.tag
               /\ wPc' = IF c.raised THEN "returned" ELSE "after"
               /\ resultRun' = IF c.raised THEN "Err" ELSE resultRun
               /\ late' = IF rShouldAbort /\ ~c.raised
                          THEN [late EXCEPT !.finished = TRUE] ELSE late
               /\ UNCHANGED <<steps, cur, execLog>>
       ELSE LET p == PopLeft(steps)
            IN /\ steps' = p.rest
               /\ cur' = p.step
               /\ execLog' = Append(execLog, p.step.id)
               /\ wPc' = "exec"
               /\ late' = IF rShouldAbort
                          THEN [late EXCEPT !.begun = @ + 1] ELSE late
               /\ UNCHANGED <<rTag, resultRun>>
    /\ UNCHANGED <<rShouldAbort, rAborted, step_results, interactive, userSteps,
                   enqLog, lastStep, lastOutcome, doneLog, queueAtRun, nRuns>>
    /\ UNCHANGED <<cPc, cIdx, abortLog, nAborts, nCtl>>
    /\ UNCHANGED <<smVars, mgrVars, soloVars, envVars, abortVars>>

\* The worker after _execute_step: post_step_call, sleep, next iteration; an
\* exception that escaped the step ends run() with result.run = the error.
AfterStep(e, outcome) ==
    /\ step_results' = e.results
    /\ lastStep' = cur
    /\ lastOutcome' = outcome
    /\ doneLog' = Append(doneLog, [id |-> cur.id, name |-> cur.name,
                                    outcome |-> outcome])
    /\ cur' = NoStep
    /\ wPc' = IF e.raised THEN "returned" ELSE "loop"
    /\ resultRun' = IF e.raised THEN "Err" ELSE resultRun

\* What a step that is not a call on the Environment may do: setup() and
\* teardown() are `pass` in base.py and return None; a user step returns or
\* raises anything.
OutcomesOf(name) ==
    IF name \in UserNames THEN StepOutcomes ELSE {"None"}

\* _execute_step on setup, teardown or a user step.
ExecStep ==
    /\ wPc = "exec"
    /\ cur.name \notin {"start", "stop"}
    /\ \E outcome \in OutcomesOf(cur.name) :
        AfterStep(ExecuteStep(step_results, cur.name, outcome), outcome)
    /\ UNCHANGED <<rTag, rShouldAbort, rAborted, steps, interactive, userSteps,
                   enqLog, execLog, queueAtRun, nRuns>>
    /\ UNCHANGED <<smVars, mgrVars, soloVars, envVars, abortVars, ctlVars>>

\* _execute_step on resources.start / resources.stop(reversed=True): the call
\* is made on the worker thread.
ExecEnvCall ==
    /\ wPc = "exec"
    /\ cur.name \in {"start", "stop"}
    /\ envPc \in {"idle", "done"}
    /\ IF cur.name = "start" THEN EnvStartBegin ELSE EnvStopBegin(TRUE)
    /\ wPc' = "envcall"
    /\ UNCHANGED <<rTag, rShouldAbort, rAborted, steps, step_results, resultRun,
                   interactive, userSteps, cur,
                   enqLog, execLog, lastStep, lastOutcome, doneLog, queueAtRun, nRuns>>
    /\ UNCHANGED <<resVars, nOps, smVars, mgrVars, soloVars, abortVars, ctlVars>>

\* resources.start / resources.stop has ended: it returned None, or the
\* exception of its second loop escaped; _execute_step stores either.
ExecEnvReturn ==
    /\ wPc = "envcall"
    /\ envPc = "done"
    /\ LET outcome == IF envResult = "raised" THEN "Err" ELSE "None"
       IN AfterStep(ExecuteStep(step_results, cur.name, outcome), outcome)
    /\ UNCHANGED <<rTag, rShouldAbort, rAborted, steps, interactive, userSteps,
                   enqLog, execLog, queueAtRun, nRuns>>
    /\ UNCHANGED <<smVars, mgrVars, soloVars, envVars, abortVars, ctlVars>>

\* run() after _run_batch_steps() returned: _add_step(teardown), then the
\* else clause sets result.run and run() returns.
RunEnd ==
    /\ wPc = "after"
    /\ steps' = AddSteps(steps, <<"teardown">>, Len(enqLog) + 1)
    /\ enqLog' = Append(enqLog, "teardown")
    /\ resultRun' = RunField(rTag, step_results)
    /\ wPc' = "returned"
    /\ UNCHANGED <<rTag, rShouldAbort, rAborted, step_results,
                   interactive, userSteps, cur,
                   execLog, lastStep, lastOutcome, doneLog, queueAtRun, nRuns>>
    /\ UNCHANGED <<smVars, mgrVars, soloVars, envVars, abortVars, ctlVars>>

\* ------------------------------------------- abort / pause / resume thread
\* Mutant of AbortDependencies: the resources, last inserted first.
AbortDependencies_reversed == Reverse(EnvValues)

\* Runnable.abort_dependencies: the resources, in Environment iteration order.
AbortDependencies == EnvValues

\* Entity.abort on the Runnable, first statement: _should_abort = True; the
\* loop over abort_dependencies() follows.
CtlAbort ==
    /\ cPc = "idle"
    /\ nCtl < MaxCtl
    /\ rShouldAbort' = AbortRequest(rShouldAbort)
    /\ abortLog' = <<[e |-> "should_abort", r |-> 0]>>
    /\ nAborts' = IF nAborts < 2 THEN nAborts + 1 ELSE nAborts
    /\ UNCHANGED late
    /\ nCtl' = nCtl + 1
    /\ cPc' = IF Len(AbortDependencies) = 0 THEN "abort_self" ELSE "abort_deps"
    /\ cIdx' = 1
    /\ UNCHANGED <<rTag, rAborted, steps, step_results, resultRun,
                   interactive, userSteps, wPc, cur,
                   enqLog, execLog, lastStep, lastOutcome, doneLog, queueAtRun, nRuns>>
    /\ UNCHANGED <<smVars, mgrVars, soloVars, envVars, abortVars>>

\* Mutant of AbortEntity: the exception of entity.abort() is not caught.
AbortEntity_propagates(flag, hookOk) ==
    [aborted |-> IF hookOk THEN TRUE ELSE flag, raised |-> ~hookOk]

\* _abort_entity(entity): entity.abort() runs the entity's aborting() hook and
\* sets its _aborted; an exception of the hook is logged and swallowed, else
\* wait(entity.aborted is True) ends at once.  `flag` is entity._aborted.
AbortEntity(flag, hookOk) ==
    [aborted |-> IF hookOk THEN MarkAborted(flag) ELSE flag, raised |-> FALSE]

\* Entity.abort on the Runnable, one iteration of the loop over
\* abort_dependencies(): _abort_entity(dep), dep.abort() having set the
\* resource's _should_abort first.
AbortDep ==
    /\ cPc = "abort_deps"
    /\ \E hookOk \in BOOLEAN :
        LET r == AbortDependencies[cIdx]
            a == AbortEntity(aborted[r], hookOk)
        IN /\ should_abort' = [should_abort EXCEPT ![r] = AbortRequest(@)]
           /\ aborted' = [aborted EXCEPT ![r] = a.aborted]
           /\ abortLog' = Append(abortLog, [e |-> "abort_dep", r |-> r])
           /\ IF a.raised
              THEN cPc' = "idle" /\ cIdx' = 0
              ELSE IF cIdx = Len(AbortDependencies)
                   THEN cPc' = "abort_self" /\ cIdx' = 0
                   ELSE cPc' = "abort_deps" /\ cIdx' = cIdx + 1
    /\ UNCHANGED <<nAborts, late, nCtl>>
    /\ UNCHANGED <<smVars, mgrVars, soloVars, envVars, runVars>>

\* Entity.abort, last statements: self.aborting(), then _aborted = True.  An
\* exception of the hook escapes abort() and the flag is not set.
AbortSelf ==
    /\ cPc = "abort_self"
    /\ \E hookOk \in BOOLEAN :
        IF hookOk
        THEN /\ rAborted' = MarkAborted(rAborted)
             /\ abortLog' = abortLog \o <<[e |-> "aborting", r |-> 0],
                                          [e |-> "aborted", r |-> 0]>>
        ELSE /\ UNCHANGED rAborted
             /\ abortLog' = Append(abortLog, [e |-> "aborting", r |-> 0])
    /\ cPc' = "idle"
    /\ UNCHANGED <<cIdx, nAborts, late, nCtl>>
    /\ UNCHANGED <<rTag, rShouldAbort, steps, step_results, resultRun,
                   interactive, userSteps, wPc, cur,
                   enqLog, execLog, lastStep, lastOutcome, doneLog, queueAtRun, nRuns>>
    /\ UNCHANGED <<smVars, mgrVars, soloVars, envVars, abortVars>>

\* Entity.pause on the Runnable: status.change(PAUSING), whose exception
\* escapes; Runnable.pausing() follows.
CtlPause ==
    /\ cPc = "idle"
    /\ nCtl < MaxCtl
    /\ LET c == RunChange(rTag, PAUSING)
       IN /\ rTag' = c.tag
          /\ cPc' = IF c.raised THEN "idle"
                    ELSE IF Len(resources) = 0 THEN "pause_end" ELSE "pause_res"
    /\ cIdx' = 1
    /\ nCtl' = nCtl + 1
    /\ UNCHANGED <<abortLog, nAborts, late>>
    /\ UNCHANGED <<rShouldAbort, rAborted, steps, step_results, resultRun,
                   interactive, userSteps, wPc, cur,
                   enqLog, execLog, lastStep, lastOutcome, doneLog, queueAtRun, nRuns>>
    /\ UNCHANGED <<smVars, mgrVars, soloVars, envVars, abortVars>>

\* Entity.pause / Entity.resume on a resource: status.change(first), then the
\* hook.  The hooks are abstract in base.py: one returns having completed the
\* transition to `last` (hookOk), or raises.
Resource_switch(t, first, last, hookOk) ==
    LET c == ResChange(t, first)
    IN IF c.raised THEN c
       ELSE IF hookOk THEN ResChange(c.tag, last)
       ELSE [tag |-> c.tag, raised |-> TRUE]

\* The tags of a resource during Entity.pause / Entity.resume: before, after
\* status.change(first), and at the end.
SwitchPath(t, first, end) == <<t, ResChange(t, first).tag, end>>

\* Runnable.pausing, one iteration: resource.pause(); an exception escapes
\* pause() and leaves the Runnable at PAUSING.
PauseRes ==
    /\ cPc = "pause_res"
    /\ \E hookOk \in BOOLEAN :
        LET r == EnvValues[cIdx]
            p == Resource_switch(tag[r], PAUSING, PAUSED, hookOk)
        IN /\ tag' = [tag EXCEPT ![r] = p.tag]
           /\ tagEdges' = Observe(tagEdges, SwitchPath(tag[r], PAUSING, p.tag))
           /\ cPc' = IF p.raised THEN "idle"
                     ELSE IF cIdx = Len(resources) THEN "pause_end"
                     ELSE "pause_res"
    /\ cIdx' = cIdx + 1
    /\ UNCHANGED <<abortLog, nAborts, late, nCtl>>
    /\ UNCHANGED <<resources, asyncStart, context, start_exceptions, stop_exceptions>>
    /\ UNCHANGED <<envCallVars, envLogVars, nOps, smVars, mgrVars, soloVars, abortVars, runVars>>

\* Runnable.pausing, last statement: status.change(PAUSED).
PauseEnd ==
    /\ cPc = "pause_end"
    /\ rTag' = RunChange(rTag, PAUSED).tag
    /\ cPc' = "idle"
    /\ UNCHANGED <<cIdx, abortLog, nAborts, late, nCtl>>
    /\ UNCHANGED <<rShouldAbort, rAborted, steps, step_results, resultRun,
                   interactive, userSteps, wPc, cur,
                   enqLog, execLog, lastStep, lastOutcome, doneLog, queueAtRun, nRuns>>
    /\ UNCHANGED <<smVars, mgrVars, soloVars, envVars, abortVars>>

\* Entity.resume on the Runnable: status.change(RESUMING).
CtlResume ==
    /\ cPc = "idle"
    /\ nCtl < MaxCtl
    /\ LET c == RunChange(rTag, RESUMING)
       IN /\ rTag' = c.tag
          /\ cPc' = IF c.raised THEN "idle"
                    ELSE IF Len(resources) = 0 THEN "resume_end" ELSE "resume_res"
    /\ cIdx' = 1
    /\ nCtl' = nCtl + 1
    /\ UNCHANGED <<abortLog, nAborts, late>>
    /\ UNCHANGED <<rShouldAbort, rAborted, steps, step_results, resultRun,
                   interactive, userSteps, wPc, cur,
                   enqLog, execLog, lastStep, lastOutcome, doneLog, queueAtRun, nRuns>>
    /\ UNCHANGED <<smVars, mgrVars, soloVars, envVars, abortVars>>

\* Runnable.resuming, one iteration: resource.resume().
ResumeRes ==
    /\ cPc = "resume_res"
    /\ \E hookOk \in BOOLEAN :
        LET r == EnvValues[cIdx]
            p == Resource_switch(tag[r], RESUMING, STARTED, hookOk)
        IN /\ tag' = [tag EXCEPT ![r] = p.tag]
           /\ tagEdges' = Observe(tagEdges, SwitchPath(tag[r], RESUMING, p.tag))
           /\ cPc' = IF p.raised THEN "idle"
                     ELSE IF cIdx = Len(resources) THEN "resume_end"
                     ELSE "resume_res"
    /\ cIdx' = cIdx + 1
    /\ UNCHANGED <<abortLog, nAborts, late, nCtl>>
    /\ UNCHANGED <<resources, asyncStart, context, start_exceptions, stop_exceptions>>
    /\ UNCHANGED <<envCallVars, envLogVars, nOps, smVars, mgrVars, soloVars, abortVars, runVars>>

\* Runnable.resuming, last statement: status.change(RUNNING).
ResumeEnd ==
    /\ cPc = "resume_end"
    /\ rTag' = RunChange(rTag, RUNNING).tag
    /\ cPc' = "idle"
    /\ UNCHANGED <<cIdx, abortLog, nAborts, late, nCtl>>
    /\ UNCHANGED <<rShouldAbort, rAborted, steps, step_results, resultRun,
                   interactive, userSteps, wPc, cur,
                   enqLog, execLog, lastStep, lastOutcome, doneLog, queueAtRun, nRuns>>
    /\ UNCHANGED <<smVars, mgrVars, soloVars, envVars, abortVars>>

\* A Runnable subclass: its configuration and the steps it defines.
InitRunSpec ==
    /\ InitSm
    /\ InitEnv
    /\ InitAbort
    /\ InitMgr
    /\ InitRun
    /\ interactive \in BOOLEAN
    /\ userSteps \in UserPrograms(MaxUserSteps)

NextRun ==
    \/ RunAdd
    \/ CallRun
    \/ LoopCheck
    \/ Pop
    \/ ExecStep
    \/ ExecEnvCall
    \/ ExecEnvReturn
    \/ RunEnd
    \/ EnvStartFirst
    \/ EnvStartSecond
    \/ EnvStopFirst
    \/ EnvStopSecond
    \/ CtlAbort
    \/ AbortDep
    \/ AbortSelf
    \/ CtlPause
    \/ PauseRes
    \/ PauseEnd
    \/ CtlResume
    \/ ResumeRes
    \/ ResumeEnd

\* A Runnable subclass on which another thread calls pause(), resume() and
\* abort().
InitRunCtl ==
    /\ InitSm
    /\ InitEnv
    /\ InitAbort
    /\ InitMgr
    /\ InitRun
    /\ interactive \in BOOLEAN
    /\ userSteps \in UserPrograms(MaxCtlUserSteps)

SpecRun == InitRunCtl /\ [][NextRun]_vars

\* A Runnable on which only run() is called: no pause(), resume() or abort().
NextSeq ==
    \/ RunAdd
    \/ CallRunSeq
    \/ LoopCheck
    \/ Pop
    \/ ExecStep
    \/ ExecEnvCall
    \/ ExecEnvReturn
    \/ RunEnd
    \/ EnvStartFirst
    \/ EnvStartSecond
    \/ EnvStopFirst
    \/ EnvStopSecond

SpecSeq == InitRunSpec /\ [][NextSeq]_vars

\* ------------------------------------------------- claims on Runnable.run
IdsOf(q) == [i \in 1..Len(q) |-> q[i].id]

NamesOf(q) == [i \in 1..Len(q) |-> q[i].name]

\* The entries of doneLog for the steps named n.
DoneNamed(n) == SelectSeq(doneLog, LAMBDA d : d.name = n)

\* C6: with no abort and no pause, a step that raises does not stop the loop.
\* What a step did (its return value, or the error it raised) is what is
\* recorded under its name when it finishes; when the loop is left, every step
\* that was queued has been executed, in order, the queue is empty, the result
\* recorded under each name is what the last step of that name did, and the
\* status is FINISHED.
C6_ErrorsAreResults ==
    /\ lastStep # NoStep => step_results[lastStep.name] = lastOutcome
    /\ wPc = "after" =>
        /\ rTag = FINISHED
        /\ steps = <<>>
        /\ IdsOf(doneLog) = IdsOf(queueAtRun)
        /\ \A n \in StepNames :
            DoneNamed(n) # <<>> =>
                step_results[n] = DoneNamed(n)[Len(DoneNamed(n))].outcome

\* The first user step raised and the second returned True: both results are
\* recorded, resources.stop ran after them and the status is FINISHED.
C6_Witness ==
    /\ wPc = "after"
    /\ userSteps = <<"u1", "u2">>
    /\ Len(resources) = 2
    /\ step_results["u1"] = "Err"
    /\ step_results["u2"] = "True"
    /\ step_results["stop"] = "None"
    /\ NamesOf(doneLog) = <<"setup", "start", "u1", "u2", "stop">>
    /\ rTag = FINISHED

\* C7: when a run() that was neither aborted nor paused has returned, the
\* steps it executed are setup, resources.start, the user's steps,
\* resources.stop and teardown, in that order.
C7_RunStepOrder ==
    (wPc = "returned" /\ ~interactive) =>
        NamesOf(doneLog) = BatchNames \o <<"teardown">>

\* C8: the ids of the steps begun are 1, 2, ... in the order of enqueueing, so
\* each step begins at most once and in FIFO order; the queue holds exactly
\* the steps enqueued and not yet begun; at most one step is in flight, and
\* the step before it has finished with its result recorded.
C8_FifoNoOverlap ==
    /\ execLog = [i \in 1..Len(execLog) |-> i]
    /\ IdsOf(steps) = [i \in 1..Len(steps) |-> Len(execLog) + i]
    /\ \A i \in 1..Len(steps) : steps[i].name = enqLog[steps[i].id]
    /\ (cur # NoStep) <=> (wPc \in {"exec", "envcall"})
    /\ cur # NoStep =>
        /\ cur.id = Len(execLog)
        /\ cur.name = enqLog[cur.id]
        /\ IF cur.id = 1 THEN lastStep = NoStep
           ELSE /\ lastStep.id = cur.id - 1
                /\ step_results[lastStep.name] = lastOutcome
    /\ (cur = NoStep /\ execLog # <<>>) => lastStep.id = Len(execLog)

\* resources.stop, the fourth step enqueued, is in flight while pause() is
\* being called on the Runnable; the three steps before it have finished and
\* nothing is left in the queue.
C8_Witness ==
    /\ wPc = "envcall"
    /\ cur.name = "stop"
    /\ execLog = <<1, 2, 3, 4>>
    /\ lastStep.id = 3
    /\ steps = <<>>
    /\ rTag = PAUSING
    /\ cPc = "pause_res"
    /\ Len(resources) = 2

\* The events of one complete abort() call on the Runnable.
AbortEvents ==
    <<[e |-> "should_abort", r |-> 0]>>
    \o [i \in 1..Len(EnvValues) |-> [e |-> "abort_dep", r |-> EnvValues[i]]]
    \o <<[e |-> "aborting", r |-> 0], [e |-> "aborted", r |-> 0]>>

IsPrefix(s, t) == Len(s) <= Len(t) /\ s = SubSeq(t, 1, Len(s))

\* C9: an abort() call on the Runnable sets should-abort, then aborts each
\* resource in Environment iteration order (waiting on each), then runs the
\* Runnable's aborting() hook, and only then sets aborted: no resource is
\* asked to abort before the Runnable's should-abort is set, and the aborted
\* flag is set only by a call that has gone through all of these.
C9_AbortChildrenFirst ==
    /\ IsPrefix(abortLog, AbortEvents)
    /\ \A r \in Res : should_abort[r] => rShouldAbort
    /\ (rAborted /\ nAborts = 1) => abortLog = AbortEvents
    /\ rAborted => nAborts >= 1

\* abort() on a Runnable with two resources has ended: both were aborted, in
\* insertion order, before the Runnable's hook ran and its flag was set.
C9_Witness ==
    /\ Len(resources) = 2
    /\ nAborts = 1
    /\ cPc = "idle"
    /\ rAborted
    /\ abortLog = AbortEvents
    /\ \A r \in Range(EnvValues) : should_abort[r] /\ aborted[r]

\* C10: no step of any thread resets a should-abort or an aborted flag of the
\* Runnable or of a resource, and an entity that is not active stays so.
C10_AbortFlagsMonotonic ==
    [][/\ rShouldAbort => rShouldAbort'
       /\ rAborted => rAborted'
       /\ ~Active(rShouldAbort, rAborted) => ~Active(rShouldAbort', rAborted')
       /\ \A r \in Res :
            /\ should_abort[r] => should_abort'[r]
            /\ aborted[r] => aborted'[r]
            /\ ~Active(should_abort[r], aborted[r])
                    => ~Active(should_abort'[r], aborted'[r])]_vars

\* abort() has been called twice on a Runnable with two resources while its
\* run() was in progress: every flag is still set and run() has returned.
C10_Witness ==
    /\ nAborts = 2
    /\ cPc = "idle"
    /\ wPc = "returned"
    /\ Len(resources) = 2
    /\ rShouldAbort
    /\ rAborted
    /\ \A r \in Range(EnvValues) : should_abort[r] /\ aborted[r]
    /\ execLog # <<>>

\* C11: a dependency whose abort() raises does not end the cascade.  While the
\* loop over the dependencies runs, each one before the loop index has been
\* aborted; an abort() call that has ended has aborted every dependency and
\* run the Runnable's own aborting() hook, whichever dependencies raised, and
\* when that hook returned, the Runnable's aborted flag is set and abort()
\* returned normally.
C11_AbortCascadeContinues ==
    /\ cPc = "abort_deps" =>
        abortLog = SubSeq(AbortEvents, 1, cIdx)
    /\ cPc = "abort_self" =>
        abortLog = SubSeq(AbortEvents, 1, Len(AbortEvents) - 2)
    /\ (cPc \notin {"abort_deps", "abort_self"} /\ abortLog # <<>>) =>
        /\ abortLog \in {AbortEvents,
                         SubSeq(AbortEvents, 1, Len(AbortEvents) - 1)}
        /\ abortLog = AbortEvents => rAborted

\* The abort() of the first of two resources raised (its aborted flag is not
\* set); the second was aborted all the same, the Runnable's hook ran and its
\* aborted flag is set.
C11_Witness ==
    /\ Len(resources) = 2
    /\ nAborts = 1
    /\ cPc = "idle"
    /\ should_abort[EnvValues[1]] /\ ~aborted[EnvValues[1]]
    /\ should_abort[EnvValues[2]] /\ aborted[EnvValues[2]]
    /\ abortLog = AbortEvents
    /\ rAborted

\* C12 as stated: once should-abort is set, the loop of _run begins no step
\* and does not change the status to FINISHED.
C12_NoStepAfterAbort ==
    /\ late.begun = 0
    /\ ~late.finished

\* C12 as amended: the loop tests `active` only at the head of an iteration.
\* An iteration that had passed the test when should-abort was set goes on:
\* it begins one more step, or finds the queue empty and changes the status
\* to FINISHED; no iteration is entered after that.  The steps not begun stay
\* in the queue, and when the loop is left every step begun has finished with
\* its result recorded.
C12_AbortStopsNextIteration ==
    /\ late.begun + (IF late.finished THEN 1 ELSE 0) <= 1
    /\ IdsOf(steps) = [i \in 1..Len(steps) |-> Len(execLog) + i]
    /\ (rShouldAbort /\ wPc \in {"after", "returned"}) =>
        /\ cur = NoStep
        /\ execLog # <<>> =>
            /\ lastStep.id = Len(execLog)
            /\ step_results[lastStep.name] = lastOutcome

\* abort() set should-abort after the loop had tested `active` and before it
\* popped the user step: the step ran, its result is recorded, resources.stop
\* was never begun and is still in the queue, and run() has returned without
\* reaching FINISHED.
C12_Witness ==
    /\ late.begun = 1
    /\ wPc = "returned"
    /\ execLog = <<1, 2, 3>>
    /\ lastStep.name = "u1"
    /\ step_results["u1"] = "True"
    /\ NamesOf(steps) = <<"stop", "teardown">>
    /\ rTag = RUNNING
    /\ resultRun = "False"

\* ------------------------------------------------------------- run_result
\* A Runnable whose result holds any step results.
InitResult ==
    /\ InitSm
    /\ InitEnv
    /\ InitAbort
    /\ InitMgr
    /\ InitRunRest
    /\ interactive = FALSE
    /\ userSteps = <<>>
    /\ step_results \in [StepNames -> {"absent"} \cup ResultValues]

\* run_result() is called.
CallRunResult ==
    /\ runResultOut = "unset"
    /\ runResultOut' = IF run_result(step_results) THEN "True" ELSE "False"
    /\ UNCHANGED <<smType, smTag, smPrev, smNew, smRaised>>
    /\ UNCHANGED <<mgrVars, soloVars, envVars, abortVars, runVars, ctlVars>>

NextResult == CallRunResult

SpecResult == InitResult /\ [][NextResult]_vars

\* The names that are keys of step_results.
Recorded == {n \in StepNames : step_results[n] # "absent"}

\* C13: run_result() returns true exactly when no recorded step result is an
\* error or the value False; True, 5, 0 and None are successes, and so is the
\* empty mapping.
C13_RunResult ==
    runResultOut # "unset" =>
        /\ runResultOut = "True" <=>
            \A n \in Recorded : step_results[n] \notin {"Err", "False"}
        /\ Recorded = {} => runResultOut = "True"

\* run_result() returned true on results that hold True, 5, None and 0.
C13_Witness ==
    /\ runResultOut = "True"
    /\ step_results["u1"] = "True"
    /\ step_results["u2"] = "5"
    /\ step_results["setup"] = "None"
    /\ step_results["start"] = "0"
    /\ Recorded = {"u1", "u2", "setup", "start"}

\* ------------------------------------------------------------- result.run
\* run() has returned and something it called outside _execute_step raised:
\* _add_step(teardown), the last statement of the try block, was not reached.
RunRaised == wPc = "returned" /\ enqLog[Len(enqLog)] # "teardown"

\* C14: when run() has returned, result.run is the error when something
\* outside the execution of a step raised (the `raise` of the interactive
\* mode, an illegal status change at the start of or inside the loop);
\* otherwise it is True when the status tag is FINISHED and no recorded step
\* result is an error or False, and False otherwise, as it is when the loop
\* was left because of abort with the tag not FINISHED.
C14_RunField ==
    wPc = "returned" =>
        IF RunRaised THEN resultRun = "Err"
        ELSE /\ resultRun \in {"True", "False"}
             /\ resultRun = "True" <=>
                    /\ rTag = FINISHED
                    /\ \A n \in Recorded : step_results[n] \notin {"Err", "False"}

\* pause() changed the status between the loop's test of the tag and its
\* popleft() on the empty queue: change(FINISHED) raised inside the loop,
\* every step had run without error, and result.run is the error.
C14_Witness ==
    /\ wPc = "returned"
    /\ ~interactive
    /\ RunRaised
    /\ resultRun = "Err"
    /\ steps = <<>>
    /\ rTag \in {PAUSING, PAUSED}
    /\ \A n \in Recorded : step_results[n] \notin {"Err", "False"}
    /\ ~rShouldAbort

\* -------------------------------------------------------- RunnableManager
\* execute_as_thread(target, daemon=True, join=True, break_join=...): whether
\* the join ends, given that the thread has finished and what break_join()
\* returns.
JoinEnds(threadDone, breakJoin) == threadDone \/ breakJoin

\* RunnableManager.run, after the join: `isinstance(self._runnable.result,
\* Exception)` tests the RunnableResult object, which is not an Exception
\* whatever its `run` field holds, so the result is returned.
ManagerOutcome(run) == "returned"

\* RunnableManager.run: the signal handlers are installed and the thread that
\* will call the Runnable's run() is started.
MgrRun ==
    /\ mPc = "idle"
    /\ mPc' = "joining"
    /\ UNCHANGED <<mSig, mShouldAbort, mAborted>>
    /\ UNCHANGED soloVars
    /\ UNCHANGED <<smVars, envVars, abortVars, runVars, ctlVars>>

\* The thread started by the manager calls the Runnable's run().
MgrThreadRun ==
    /\ mPc # "idle"
    /\ nRuns = 0
    /\ Runnable_run(MaxRuns)

\* _handle_abort: a signal arrives during the join; the handler sets every
\* abort signal to SIG_IGN and enters self.abort(), which sets _should_abort.
MgrSignal ==
    /\ mPc = "joining"
    /\ mSig = "none"
    /\ mSig' = "handling"
    /\ mShouldAbort' = AbortRequest(mShouldAbort)
    /\ UNCHANGED <<mPc, mAborted>>
    /\ UNCHANGED soloVars
    /\ UNCHANGED <<smVars, envVars, abortVars, runVars, ctlVars>>

\* Entity.abort on the manager: _abort_entity(self._runnable) enters the
\* Runnable's abort().
MgrAbortRunnable ==
    /\ mSig = "handling"
    /\ nAborts = 0
    /\ CtlAbort

\* Entity.abort on the manager, after the Runnable's abort() has ended (an
\* exception of it is swallowed by _abort_entity): aborting() is `pass`, then
\* _aborted = True, and the handler returns.
MgrAbortEnd ==
    /\ mSig = "handling"
    /\ nAborts >= 1
    /\ cPc = "idle"
    /\ mAborted' = MarkAborted(mAborted)
    /\ mSig' = "done"
    /\ UNCHANGED <<mPc, mShouldAbort>>
    /\ UNCHANGED soloVars
    /\ UNCHANGED <<smVars, envVars, abortVars, runVars, ctlVars>>

\* RunnableManager.run: the join ends (the handler, which runs on this
\* thread, is not in progress) and run() returns or raises.
MgrJoin ==
    /\ mPc = "joining"
    /\ mSig # "handling"
    /\ JoinEnds(wPc = "returned", mAborted)
    /\ mPc' = ManagerOutcome(resultRun)
    /\ UNCHANGED <<mSig, mShouldAbort, mAborted>>
    /\ UNCHANGED soloVars
    /\ UNCHANGED <<smVars, envVars, abortVars, runVars, ctlVars>>

NextMgr ==
    \/ RunAdd
    \/ MgrRun
    \/ MgrThreadRun
    \/ LoopCheck
    \/ Pop
    \/ ExecStep
    \/ ExecEnvCall
    \/ ExecEnvReturn
    \/ RunEnd
    \/ EnvStartFirst
    \/ EnvStartSecond
    \/ EnvStopFirst
    \/ EnvStopSecond
    \/ MgrSignal
    \/ MgrAbortRunnable
    \/ AbortDep
    \/ AbortSelf
    \/ MgrAbortEnd
    \/ MgrJoin

\* The manager's thread and its signal handler keep running, and every abort
\* hook returns or raises; a step of the Runnable may never finish.
SpecMgr ==
    /\ InitRunCtl
    /\ [][NextMgr]_vars
    /\ WF_vars(MgrJoin)
    /\ WF_vars(MgrAbortRunnable)
    /\ WF_vars(AbortDep)
    /\ WF_vars(AbortSelf)
    /\ WF_vars(MgrAbortEnd)

MgrRunEnded == mPc \in {"returned", "raised"}

\* C15: RunnableManager.run() returns only when the thread running the
\* Runnable has finished or the manager's aborted flag is set; once the
\* thread has finished, run() ends; and once a signal has invoked abort() on
\* the manager, run() ends even if the step in flight never finishes.
C15_ManagerRunReturns ==
    /\ [](MgrRunEnded => (wPc = "returned" \/ mAborted))
    /\ (mPc = "joining" /\ wPc = "returned") ~> MgrRunEnded
    /\ (mSig = "handling") ~> MgrRunEnded

\* The manager's run() has returned after an abort while the user step of the
\* Runnable is still in flight.
C15_Witness ==
    /\ mPc = "returned"
    /\ mAborted
    /\ wPc = "exec"
    /\ cur.name = "u1"
    /\ Len(resources) = 2

\* C16: when RunnableManager.run() has ended with no abort, so that the join
\* ended because the Runnable's run() had returned, it raised when the
\* Runnable's run ended with an error captured as its result, and returned
\* the result otherwise.
C16_ManagerReraises ==
    (MgrRunEnded /\ mSig = "none") =>
        (mPc = "raised" <=> resultRun = "Err")

\* ------------------------------------------------- start / stop round trip
\* start() is called on an Environment that is new or was stopped.
CycleStart ==
    /\ envPc \in {"idle", "done"}
    /\ envOp \in {"none", "stop"}
    /\ nOps < MaxCycleOps
    /\ nOps' = nOps + 1
    /\ EnvStartBegin
    /\ UNCHANGED <<resVars, smVars, mgrVars, soloVars, abortVars, runVars, ctlVars>>

\* stop(reversed) is called on an Environment that was started.
CycleStop ==
    /\ envPc = "done"
    /\ envOp = "start"
    /\ nOps < MaxCycleOps
    /\ nOps' = nOps + 1
    /\ \E reversed \in BOOLEAN : EnvStopBegin(reversed)
    /\ UNCHANGED <<resVars, smVars, mgrVars, soloVars, abortVars, runVars, ctlVars>>

\* The first loops, on resources whose starting() and stopping() return.
CycleStartFirst == EnvStartFirstWith({TRUE})

CycleStopFirst == EnvStopFirstWith({TRUE})

NextCycle ==
    \/ EnvAdd
    \/ CycleStart
    \/ CycleStop
    \/ CycleStartFirst
    \/ EnvStartSecond
    \/ CycleStopFirst
    \/ EnvStopSecond

SpecCycle == InitEnvSpec /\ [][NextCycle]_vars

\* C17: with hooks that do not raise, no start() or stop() of a resource
\* fails in any cycle; every start() returns with every resource STARTED and
\* every stop(), in either order, returns with every resource STOPPED.
C17_StartStopRoundTrip ==
    /\ start_exceptions = {}
    /\ stop_exceptions = {}
    /\ envPc = "done" =>
        /\ envResult = "ok"
        /\ \A r \in Range(EnvValues) :
            tag[r] = IF envOp = "start" THEN STARTED ELSE STOPPED

\* The second cycle has ended on three resources, synchronous and
\* asynchronous: all are STOPPED again.
C17_Witness ==
    /\ nOps = 4
    /\ envOp = "stop"
    /\ envPc = "done"
    /\ Len(resources) = 3
    /\ \E r \in Range(EnvValues) : asyncStart[r]
    /\ \E r \in Range(EnvValues) : ~asyncStart[r]
    /\ \A r \in Range(EnvValues) : tag[r] = STOPPED /\ tagAtEntry[r] = STARTED

\* ------------------------------------------------ Environment.add / remove
\* add(item, uid) with any resource and any uid, given or None.
SoloAdd ==
    /\ \E item \in Res, uid \in {0} \cup Res :
        LET a == Environment_add(resources, item, AssignedUid(item, uid))
        IN /\ resources' = a.resources
           /\ context' = Environment_add_context(context, item)
           /\ addObs' = [op |-> "add", uid |-> uid, item |-> item,
                         before |-> resources, raised |-> a.raised,
                         ret |-> a.ret, ctxBefore |-> context[item]]
    /\ UNCHANGED <<asyncStart, tag, tagEdges, start_exceptions, stop_exceptions>>
    /\ UNCHANGED <<wtPc, wtTarget, wtCalls, scVars>>
    /\ UNCHANGED <<envCallVars, envLogVars, nOps>>
    /\ UNCHANGED <<smVars, mgrVars, abortVars, runVars, ctlVars>>

\* remove(uid) with any uid.
SoloRemove ==
    /\ \E uid \in Res :
        LET a == Environment_remove(resources, uid)
        IN /\ resources' = a.resources
           /\ addObs' = [op |-> "remove", uid |-> uid, item |-> 0,
                         before |-> resources, raised |-> a.raised,
                         ret |-> 0, ctxBefore |-> "None"]
    /\ UNCHANGED <<asyncStart, tag, tagEdges, context, start_exceptions, stop_exceptions>>
    /\ UNCHANGED <<wtPc, wtTarget, wtCalls, scVars>>
    /\ UNCHANGED <<envCallVars, envLogVars, nOps>>
    /\ UNCHANGED <<smVars, mgrVars, abortVars, runVars, ctlVars>>

NextAdd == SoloAdd \/ SoloRemove

SpecAdd == InitEnvSpec /\ [][NextAdd]_vars

UidsOf(res) == {res[i].uid : i \in 1..Len(res)}

\* C18: no uid is a key twice; an add() whose uid was already a key raised
\* and left the mapping, contents and order, as it was; an add() with a new
\* uid put the resource at the end of the order under that uid and returned
\* the uid.
C18_UniqueUids ==
    /\ Cardinality(UidsOf(resources)) = Len(resources)
    /\ addObs.op = "add" =>
        LET uid == IF addObs.uid = 0 THEN addObs.item ELSE addObs.uid
        IN IF uid \in UidsOf(addObs.before)
           THEN /\ addObs.raised
                /\ resources = addObs.before
           ELSE /\ ~addObs.raised
                /\ addObs.ret = uid
                /\ resources = Append(addObs.before,
                                      [uid |-> uid, item |-> addObs.item])

\* add() of another resource under a uid that two earlier adds had not used,
\* then again under the uid of the first: the last call raised and the
\* mapping still holds the three resources in the order they were added.
C18_Witness ==
    /\ addObs.op = "add"
    /\ addObs.raised
    /\ Len(resources) = 3
    /\ resources = addObs.before
    /\ addObs.uid = resources[1].uid
    /\ addObs.item # resources[1].item

\* -------------------------------------------------------------- Entity.wait
\* testplan.common.utils.timing.wait(predicate, timeout): True when the
\* predicate became true, False when the timeout elapsed first.
TimingWait(reached) == IF reached THEN "True" ELSE "False"

\* Entity.wait, no handler registered for the target: the value of
\* wait(lambda: self.status.tag == target_status, timeout=timeout) is dropped
\* and the method ends without a return statement.
Entity_wait(w) == [ret |-> "None", raised |-> FALSE]

\* The targets Entity.wait has no handler for: Resource registers handlers
\* for STARTED and STOPPED.
NoHandler(type) ==
    IF type = "ResourceStatus" THEN TagsOf(type) \ {STARTED, STOPPED}
    ELSE TagsOf(type)

\* A thread calls wait(target) on the entity.
WaitCall ==
    /\ wtPc = "idle"
    /\ Len(wtCalls) < MaxWaits
    /\ \E target \in NoHandler(smType) : wtTarget' = target
    /\ wtPc' = "waiting"
    /\ UNCHANGED <<addObs, wtCalls, scVars>>
    /\ UNCHANGED <<smVars, mgrVars, envVars, abortVars, runVars, ctlVars>>

\* The call ends: the tag is the target (`reached`), or it is not and the
\* timeout elapses.
WaitEnds(reached) ==
    /\ wtPc = "waiting"
    /\ reached = (smTag = wtTarget)
    /\ LET e == Entity_wait(TimingWait(reached))
       IN wtCalls' = Append(wtCalls,
                            [outcome |-> IF reached THEN "reached" ELSE "timeout",
                             raised |-> e.raised, ret |-> e.ret])
    /\ wtPc' = "idle"
    /\ UNCHANGED <<addObs, wtTarget, scVars>>
    /\ UNCHANGED <<smVars, mgrVars, envVars, abortVars, runVars, ctlVars>>

WaitReached == WaitEnds(TRUE)

WaitTimeout == WaitEnds(FALSE)

NextWait == SmChange \/ WaitCall \/ WaitReached \/ WaitTimeout

\* An entity of any type at any tag, another thread changing its status.
SpecWait == InitStatus /\ [][NextWait]_vars

\* C19: a wait() without handler ends when the tag is the target or on
\* timeout, does not raise, and what it returns tells the two apart: a call
\* that reached the target and a call that timed out return different values.
C19_WaitReturnsOutcome ==
    \A i, j \in 1..Len(wtCalls) :
        /\ ~wtCalls[i].raised
        /\ wtCalls[i].outcome # wtCalls[j].outcome
            => wtCalls[i].ret # wtCalls[j].ret

\* ------------------------------------------- Resource as a context manager
\* Resource.__enter__: start(), then wait(STARTED), which finds the handler
\* _wait_started; an exception of either call leaves __enter__.
Resource_enter(t, hookOk) ==
    LET s == Resource_start(t, hookOk)
        w == Resource_wait(s.tag, STARTED)
    IN IF s.raised
       THEN [tag |-> s.tag, raised |-> TRUE, calls |-> <<"start">>]
       ELSE [tag |-> w.tag, raised |-> w.raised,
             calls |-> <<"start", "wait_started">>]

\* Resource.__exit__: stop(), then wait(STOPPED), which finds the handler
\* _wait_stopped; an exception of either call leaves __exit__.
Resource_exit(t, active, hookOk) ==
    LET s == Resource_stop(t, active, hookOk)
        w == Resource_wait(s.tag, STOPPED)
        stop == IF s.hook THEN <<"stop", "stopping">> ELSE <<"stop">>
    IN IF s.raised
       THEN [tag |-> s.tag, raised |-> TRUE, calls |-> stop, stopTag |-> s.tag]
       ELSE [tag |-> w.tag, raised |-> w.raised,
             calls |-> stop \o <<"wait_stopped">>, stopTag |-> s.tag]

\* `with resource:` begins: __enter__ runs.  When it raises, the statement
\* ends there: the with statement calls __exit__ only after __enter__ has
\* returned, and __enter__ has no handler of its own.
ScopeEnter ==
    /\ scPc = "out"
    /\ Len(scLog) < MaxScopes
    /\ \E hookOk \in BOOLEAN :
        LET e == Resource_enter(scTag, hookOk)
        IN /\ scTag' = e.tag
           /\ IF e.raised
              THEN /\ scCalls' = <<>>
                   /\ scPc' = "out"
                   /\ scLog' = Append(scLog, [calls |-> e.calls,
                                               entered |-> FALSE, body |-> "none",
                                               raised |-> TRUE, tag |-> e.tag,
                                               before |-> e.tag,
                                               active |-> Active(scShould, scAborted),
                                               stopTag |-> e.tag])
              ELSE /\ scCalls' = e.calls
                   /\ scPc' = "body"
                   /\ scLog' = scLog
    /\ UNCHANGED <<scShould, scAborted>>
    /\ UNCHANGED <<addObs, wtPc, wtTarget, wtCalls>>
    /\ UNCHANGED <<smVars, mgrVars, envVars, abortVars, runVars, ctlVars>>

\* The body pauses or resumes the resource (Entity.pause, Entity.resume) and
\* handles the exception, if any.
ScopeSwitch ==
    /\ scPc = "body"
    /\ \E hookOk \in BOOLEAN, op \in {"pause", "resume"} :
        LET r == IF op = "pause"
                 THEN Resource_switch(scTag, PAUSING, PAUSED, hookOk)
                 ELSE Resource_switch(scTag, RESUMING, STARTED, hookOk)
        IN /\ scTag' = r.tag
           /\ scTag' # scTag
    /\ UNCHANGED <<scPc, scShould, scAborted, scCalls, scLog>>
    /\ UNCHANGED <<addObs, wtPc, wtTarget, wtCalls>>
    /\ UNCHANGED <<smVars, mgrVars, envVars, abortVars, runVars, ctlVars>>

\* The resource is aborted while the body runs (Entity.abort; a Resource has
\* no dependencies): the aborting() hook returns (hookOk) or raises before
\* the aborted flag is set, and the body handles the exception.
ScopeAbort ==
    /\ scPc = "body"
    /\ ~scShould
    /\ scShould' = AbortRequest(scShould)
    /\ \E hookOk \in BOOLEAN :
        scAborted' = IF hookOk THEN MarkAborted(scAborted) ELSE scAborted
    /\ UNCHANGED <<scPc, scTag, scCalls, scLog>>
    /\ UNCHANGED <<addObs, wtPc, wtTarget, wtCalls>>
    /\ UNCHANGED <<smVars, mgrVars, envVars, abortVars, runVars, ctlVars>>

\* The body ends, normally (bodyOk) or by an exception, and __exit__ runs.
\* __exit__ returns None, so an exception of the body propagates.
ScopeExit ==
    /\ scPc = "body"
    /\ \E bodyOk, hookOk \in BOOLEAN :
        LET x == Resource_exit(scTag, Active(scShould, scAborted), hookOk)
        IN /\ scTag' = x.tag
           /\ scLog' = Append(scLog, [calls |-> scCalls \o x.calls,
                                       entered |-> TRUE,
                                       body |-> IF bodyOk THEN "ok" ELSE "raised",
                                       raised |-> ~bodyOk \/ x.raised,
                                       tag |-> x.tag,
                                       before |-> scTag,
                                       active |-> Active(scShould, scAborted),
                                       stopTag |-> x.stopTag])
    /\ scCalls' = <<>>
    /\ scPc' = "out"
    /\ UNCHANGED <<scShould, scAborted>>
    /\ UNCHANGED <<addObs, wtPc, wtTarget, wtCalls>>
    /\ UNCHANGED <<smVars, mgrVars, envVars, abortVars, runVars, ctlVars>>

NextScope == ScopeEnter \/ ScopeSwitch \/ ScopeAbort \/ ScopeExit

\* A resource at NONE, used in up to MaxScopes with statements in a row.
SpecScope == InitEnvSpec /\ [][NextScope]_vars

\* C20: every with statement on a Resource that has ended, whatever the
\* outcome of entering and of the body, began with start(), called stop() and
\* left the resource at STOPPED.
C20_ReleasedOnAllPaths ==
    \A i \in 1..Len(scLog) :
        /\ IsPrefix(<<"start">>, scLog[i].calls)
        /\ scLog[i].entered => IsPrefix(<<"start", "wait_started">>, scLog[i].calls)
        /\ "stop" \in Range(scLog[i].calls)
        /\ scLog[i].tag = STOPPED

\* ------------------------------------------- the life cycle of a resource
\* Resource.restart: stop(), _wait_stopped(), start(), _wait_started(); an
\* exception of any of them ends the call.  `path`: the tags gone through.
Resource_restart(t, active, stopOk, startOk) ==
    LET s1 == Resource_stop(t, active, stopOk)
        w1 == Resource_wait(s1.tag, STOPPED)
        s2 == Resource_start(w1.tag, startOk)
        w2 == Resource_wait(s2.tag, STARTED)
    IN IF s1.raised THEN [path |-> <<t, s1.tag>>, raised |-> TRUE]
       ELSE IF w1.raised THEN [path |-> <<t, s1.tag, w1.tag>>, raised |-> TRUE]
       ELSE IF s2.raised
            THEN [path |-> <<t, s1.tag, w1.tag, s2.tag>>, raised |-> TRUE]
       ELSE [path |-> <<t, s1.tag, w1.tag, s2.tag, w2.tag>>, raised |-> w2.raised]

\* A caller of the Environment or of one of its resources, between two calls.
LifeIdle == envPc \in {"idle", "done"} /\ nOps < MaxLifeOps

LifeAdd ==
    /\ envPc = "idle"
    /\ nOps = 0
    /\ AddResource(1..MaxLifeRes)

LifeStart ==
    /\ LifeIdle
    /\ nOps' = nOps + 1
    /\ EnvStartBegin
    /\ UNCHANGED <<resVars, smVars, mgrVars, soloVars, abortVars, runVars, ctlVars>>

LifeStop ==
    /\ LifeIdle
    /\ nOps' = nOps + 1
    /\ \E reversed \in BOOLEAN : EnvStopBegin(reversed)
    /\ UNCHANGED <<resVars, smVars, mgrVars, soloVars, abortVars, runVars, ctlVars>>

\* resource.pause() or resource.resume() is called on a resource of the
\* Environment.
LifeSwitch ==
    /\ LifeIdle
    /\ nOps' = nOps + 1
    /\ \E i \in 1..Len(resources), hookOk \in BOOLEAN, op \in {"pause", "resume"} :
        LET r == EnvValues[i]
            first == IF op = "pause" THEN PAUSING ELSE RESUMING
            p == IF op = "pause"
                 THEN Resource_switch(tag[r], PAUSING, PAUSED, hookOk)
                 ELSE Resource_switch(tag[r], RESUMING, STARTED, hookOk)
        IN /\ tag' = [tag EXCEPT ![r] = p.tag]
           /\ tagEdges' = Observe(tagEdges, SwitchPath(tag[r], first, p.tag))
    /\ UNCHANGED <<resources, asyncStart, context, start_exceptions, stop_exceptions>>
    /\ UNCHANGED <<envCallVars, envLogVars>>
    /\ UNCHANGED <<smVars, mgrVars, soloVars, abortVars, runVars, ctlVars>>

\* resource.restart() is called on a resource of the Environment.
LifeRestart ==
    /\ LifeIdle
    /\ nOps' = nOps + 1
    /\ \E i \in 1..Len(resources), stopOk, startOk \in BOOLEAN :
        LET r == EnvValues[i]
            p == Resource_restart(tag[r], Active(should_abort[r], aborted[r]),
                                  stopOk, startOk)
        IN /\ tag' = [tag EXCEPT ![r] = p.path[Len(p.path)]]
           /\ tagEdges' = Observe(tagEdges, p.path)
    /\ UNCHANGED <<resources, asyncStart, context, start_exceptions, stop_exceptions>>
    /\ UNCHANGED <<envCallVars, envLogVars>>
    /\ UNCHANGED <<smVars, mgrVars, soloVars, abortVars, runVars, ctlVars>>

\* resource.wait(STARTED) or resource.wait(STOPPED) is called on a resource
\* of the Environment.
LifeWait ==
    /\ LifeIdle
    /\ nOps' = nOps + 1
    /\ \E i \in 1..Len(resources), target \in {STARTED, STOPPED} :
        LET r == EnvValues[i]
            w == Resource_wait(tag[r], target)
        IN /\ tag' = [tag EXCEPT ![r] = w.tag]
           /\ tagEdges' = Observe(tagEdges, <<tag[r], w.tag>>)
    /\ UNCHANGED <<resources, asyncStart, context, start_exceptions, stop_exceptions>>
    /\ UNCHANGED <<envCallVars, envLogVars>>
    /\ UNCHANGED <<smVars, mgrVars, soloVars, abortVars, runVars, ctlVars>>

\* resource.abort() is called on a resource of the Environment: the
\* aborting() hook returns (hookOk) or raises before _aborted is set.
LifeAbort ==
    /\ LifeIdle
    /\ nOps' = nOps + 1
    /\ \E i \in 1..Len(resources), hookOk \in BOOLEAN :
        LET r == EnvValues[i]
        IN /\ should_abort' = [should_abort EXCEPT ![r] = AbortRequest(@)]
           /\ aborted' = [aborted EXCEPT ![r] = IF hookOk THEN MarkAborted(@) ELSE @]
    /\ UNCHANGED <<resVars, envCallVars, envLogVars>>
    /\ UNCHANGED <<smVars, mgrVars, soloVars, runVars, ctlVars>>

NextLife ==
    \/ LifeAdd
    \/ LifeStart
    \/ LifeStop
    \/ EnvStartFirst
    \/ EnvStartSecond
    \/ EnvStopFirst
    \/ EnvStopSecond
    \/ LifeSwitch
    \/ LifeRestart
    \/ LifeWait
    \/ LifeAbort

\* An empty Environment, the changes of its resources' tags observed.
InitLife ==
    /\ InitSm
    /\ InitEnvRest
    /\ tagEdges = [on |-> TRUE, seen |-> {}]
    /\ InitAbort
    /\ InitMgr
    /\ InitRunIdle

SpecLife == InitLife /\ [][NextLife]_vars

\* C21, as stated: whatever is called on the Environment and its resources,
\* a resource's tag changes only along the nine edges NONE->STARTING,
\* STARTING->STARTED, STARTED->STOPPING, STOPPING->STOPPED, STOPPED->STARTING,
\* STARTED->PAUSING, PAUSING->PAUSED, PAUSED->RESUMING, RESUMING->STARTED.
C21_OnlyLifecycleEdges ==
    tagEdges.seen \subseteq
        {<<NONE, STARTING>>, <<STARTING, STARTED>>, <<STARTED, STOPPING>>,
         <<STOPPING, STOPPED>>, <<STOPPED, STARTING>>, <<STARTED, PAUSING>>,
         <<PAUSING, PAUSED>>, <<PAUSED, RESUMING>>, <<RESUMING, STARTED>>}

\* C21, amended: a resource's tag changes only along those nine edges and the
\* two edges by which stop() leaves STARTING (a start that failed or has not
\* been waited for) and PAUSED.
C21_OnlyTableEdges ==
    tagEdges.seen \subseteq
        {<<NONE, STARTING>>, <<STARTING, STARTED>>, <<STARTED, STOPPING>>,
         <<STOPPING, STOPPED>>, <<STOPPED, STARTING>>, <<STARTED, PAUSING>>,
         <<PAUSING, PAUSED>>, <<PAUSED, RESUMING>>, <<RESUMING, STARTED>>,
         <<STARTING, STOPPING>>, <<PAUSED, STOPPING>>}

\* Environment.stop() after a start that failed has taken a resource from
\* STARTING to STOPPING and on to STOPPED, and a paused resource was stopped.
C21_Witness ==
    /\ <<STARTING, STOPPING>> \in tagEdges.seen
    /\ <<PAUSED, STOPPING>> \in tagEdges.seen
    /\ <<STOPPING, STOPPED>> \in tagEdges.seen
    /\ envOp = "stop"
    /\ envPc = "done"
    /\ start_exceptions # {}

\* ------------------------------------------- the Environment's failure maps
\* C22: when a start() pass has ended, start_exceptions holds exactly the
\* resources whose start raised during that pass, and when a stop() pass has
\* ended, stop_exceptions holds exactly the resources whose stop raised
\* during that pass.
C22_MapsDescribeLastPass ==
    envPc = "done" =>
        /\ envOp = "start" => start_exceptions = failLog
        /\ envOp = "stop" => stop_exceptions = failLog

\* ------------------------------------------------ the end of the step loop
\* A Runnable on which another thread calls pause() and resume(), never
\* abort().
NextLive ==
    \/ RunAdd
    \/ CallRun
    \/ LoopCheck
    \/ Pop
    \/ ExecStep
    \/ ExecEnvCall
    \/ ExecEnvReturn
    \/ RunEnd
    \/ EnvStartFirst
    \/ EnvStartSecond
    \/ EnvStopFirst
    \/ EnvStopSecond
    \/ CtlPause
    \/ PauseRes
    \/ PauseEnd
    \/ CtlResume
    \/ ResumeRes
    \/ ResumeEnd

\* The worker thread is scheduled (the loop sleeps active_loop_sleep and
\* goes on; every step returns or raises), and so is the thread inside
\* pause() or resume().
FairLive ==
    /\ WF_vars(LoopCheck)
    /\ WF_vars(Pop)
    /\ WF_vars(ExecStep)
    /\ WF_vars(ExecEnvCall)
    /\ WF_vars(ExecEnvReturn)
    /\ WF_vars(RunEnd)
    /\ WF_vars(EnvStartFirst)
    /\ WF_vars(EnvStartSecond)
    /\ WF_vars(EnvStopFirst)
    /\ WF_vars(EnvStopSecond)
    /\ WF_vars(PauseRes)
    /\ WF_vars(PauseEnd)
    /\ WF_vars(ResumeRes)
    /\ WF_vars(ResumeEnd)

SpecLive == InitRunCtl /\ [][NextLive]_vars /\ FairLive

\* C23: with the worker scheduled, no abort, and every pause followed by a
\* resume (the Runnable is again and again at a tag other than PAUSING,
\* PAUSED and RESUMING), a run that has entered the loop of _run reaches
\* FINISHED with the queue empty.
C23_LoopReachesFinished ==
    []<>(rTag \notin {PAUSING, PAUSED, RESUMING})
        => ((wPc = "loop") ~> (rTag = FINISHED /\ steps = <<>>))

\* C27: whatever the interleaving of pause() and resume() with the loop, a
\* run() that has executed steps does not end with result.run set to the
\* error of an illegal status change.  (Once a step has been executed, the
\* only statement of run() outside a step that can raise is the loop's
\* status.change(FINISHED).)
C27_PauseNeverFailsRun ==
    (wPc = "returned" /\ doneLog # <<>>) => resultRun # "Err"

\* ------------------------------------------------ Environment.stop, passes
\* C24: when stop() has ended, a resource that was at NONE had no stop() and
\* no wait(STOPPED) and is still at NONE; the second pass waited on exactly
\* the resources that are not in stop_exceptions and not at NONE; and every
\* resource whose stop() was called and did not raise in this pass is at
\* STOPPED.
C24_StopPasses ==
    (envOp = "stop" /\ envPc = "done") =>
        /\ \A r \in Range(envList) :
              tagAtEntry[r] = NONE =>
                  /\ r \notin Range(stopLog)
                  /\ r \notin Range(waitLog)
                  /\ tag[r] = NONE
        /\ Range(waitLog) =
              {r \in Range(envList) : r \notin stop_exceptions /\ tag[r] # NONE}
        /\ \A r \in Range(stopLog) : r \notin failLog => tag[r] = STOPPED

\* ------------------------------------------------------------ Resource.stop
\* C25: stop() first attempts the transition to STOPPING, and when the
\* transition is made it calls stopping() iff the resource is active: with
\* _should_abort or _aborted set, the tag becomes STOPPING and stopping() is
\* not called.  (A transition that is refused ends stop() by its exception,
\* before the hook.)
C25_StopSkipsHookAfterAbort ==
    \A i \in 1..Len(scLog) :
        LET e == scLog[i]
            made == ResChange(e.before, STOPPING).raised = FALSE
        IN e.entered =>
              /\ "stop" \in Range(e.calls)
              /\ made => e.stopTag = STOPPING
              /\ made => ("stopping" \in Range(e.calls) <=> e.active)
              /\ ~made => ("stopping" \notin Range(e.calls) /\ e.stopTag = e.before)

\* A resource aborted inside the with statement was stopped without its
\* stopping() hook, and another time, active, with the hook.
C25_Witness ==
    \E i, j \in 1..Len(scLog) :
        /\ scLog[i].entered
        /\ ~scLog[i].active
        /\ scLog[i].before = STARTED
        /\ scLog[i].stopTag = STOPPING
        /\ scLog[i].calls = <<"start", "wait_started", "stop", "wait_stopped">>
        /\ scLog[j].entered
        /\ scLog[j].active
        /\ "stopping" \in Range(scLog[j].calls)

\* ------------------------------------------------------- pause and the loop
\* C26: the loop pops a step from the queue (the step begins) only while the
\* Runnable's tag is RUNNING.
C26_NoPopUnlessRunning ==
    [][Len(execLog') > Len(execLog) => rTag = RUNNING]_vars

\* -------------------------------------------- a failed start and result.run
\* C28: when the first run() has returned and a resource's start raised
\* during its resources.start step (nothing else fills start_exceptions),
\* result.run is not True.
C28_FailedStartNotSuccess ==
    (wPc = "returned" /\ nRuns = 1 /\ start_exceptions # {}) => resultRun # "True"

\* --------------------------------------------------------------- rerunning
\* C29: the second run() of a Runnable whose first run reached FINISHED
\* enters the loop with the queue holding the pipeline of the first run and
\* nothing else (setup first), and when it has returned it has executed
\* exactly that pipeline, in order, and the tag is FINISHED.
C29_RerunSamePipeline ==
    (nRuns = 2 /\ ~interactive) =>
        /\ NamesOf(queueAtRun) = BatchNames
        /\ wPc = "returned" => (NamesOf(doneLog) = BatchNames /\ rTag = FINISHED)

\* ------------------------------------------------ add() and the context
\* C30: an add() that raised because the uid was already a key has left the
\* resource's context as it was before the call.
C30_RejectedAddKeepsContext ==
    (addObs.op = "add" /\ addObs.raised) =>
        context[addObs.item] = addObs.ctxBefore

====
